---- MODULE Spec2Model ----
(***************************************************************************)
(* OmniSketch for PostgreSQL (src/omnisketch.c): a model of the sketch     *)
(* value, of the aggregate support functions omnisketch_add,               *)
(* omnisketch_combine, omnisketch_finalize, and of omnisketch_estimate.    *)
(*                                                                         *)
(* A sketch is a value: header fields, one bucket_t per cell and one       *)
(* sample array of sampleSize slots per cell.  Cells are addressed by the  *)
(* linear index of SKETCH_BUCKET_INDEX.  The model is the production       *)
(* build: Assert() compiles to nothing (USE_ASSERT_CHECKING undefined).    *)
(*                                                                         *)
(* XXH32 is an external library; its three uses are modelled by three      *)
(* fixed scrambling functions on small domains (H_s, RowHash, RecordId).   *)
(* XXH32 of a 4-byte key under a fixed seed is a bijection of uint32, so   *)
(* H_s and RecordId (for one seed) are injective here as well, on the ids  *)
(* below 101.  The code nevertheless provides for distinct items of equal  *)
(* hash (the tie-break of cmp_item_hash, the FIXMEs of                     *)
(* omnisketch_sample_add and intersect_items); SpecTie and SpecOrd examine *)
(* that case with an id above 100, where H_s wraps around.                 *)
(*                                                                         *)
(* The shapes omnisketch_add computes from (epsilon, delta) are scaled     *)
(* down: the code's smallest sample sizes come with heights of about 30.   *)
(***************************************************************************)
EXTENDS Integers, Sequences, FiniteSets, TLC

\* sk: the sketches in memory, by address; gh, nadd: their history; res: the
\* outcome of the last call; fold: the results of Fold3; trans: the address
\* of the aggregate's transition state, 0 while it is NULL
VARIABLES sk, gh, nadd, res, fold, trans

vars == <<sk, gh, nadd, res, fold, trans>>

----------------------------------------------------------------------------
(* Bounds of the model *)

\* number of records omnisketch_add ingests over a run of Spec
MaxRecs == 4

\* the same for a run of SpecFold
MaxRecsFold == 4

\* the same for a run of SpecEst
MaxRecsEst == 3

\* the same for a run of SpecRec
MaxRecsRec == 2

\* the same for a run of SpecSrc, also the largest count of its state
MaxRecsSrc == 3

\* aggregate transition states that exist at the same time
Slots == {1, 2, 3}

\* 32-bit hashes of column values (0 is also the hash used for SQL NULL)
ColHashes == {0, 1}

\* the accuracy parameters a caller may pass, as levels of a sizing table;
\* the levels of ValidEps and ValidDelta stand for values inside (0, 1], the
\* last level of each set for a value above 1 (epsilon = 2.0, delta = 1.5)
ValidEps == {1, 2}
ValidDelta == {1, 2, 3, 4}
EpsLevels == ValidEps \cup {3}
DeltaLevels == ValidDelta \cup {5}

\* a transition state that is SQL NULL
Null == [isnull |-> TRUE]

----------------------------------------------------------------------------
(* Hashing *)

\* #define SKETCH_HASH(v, s) XXH32(&(v), sizeof(uint32), (s)) with
\* s = SKETCH_SEED: the priority of an item in the bottom-k samples
H_s(item) == (item * 15 + 2) % 101

\* SKETCH_HASH(hash, i): the hash choosing the bucket of row i
RowHash(hash, i) == (hash + 1) * (i + 1) + i

\* id = XXH32(&sketch->count, sizeof(uint32), sketch->seed)
RecordId(count, seed) == seed * 16 + ((count * 7) % 16)

----------------------------------------------------------------------------
(* Layout *)

\* SKETCH_SIZE(s)
SKETCH_SIZE(s) == s.sketchWidth * s.sketchHeight

\* SKETCH_BUCKET_INDEX(s, a, i, j)
SKETCH_BUCKET_INDEX(s, a, i, j) == a * SKETCH_SIZE(s) + i * s.sketchWidth + j

\* number of cells of a sketch
NumCells(s) == SKETCH_SIZE(s) * s.numSketches

\* a zeroed bucket_t (palloc0)
ZeroBucket ==
    [totalCount |-> 0, sampleCount |-> 0, maxIndex |-> 0, maxHash |-> 0,
     isSorted |-> FALSE]

\* omnisketch_allocate: zeroed buckets and samples, header set, random seed
omnisketch_allocate(nsketches, width, height, sampleSize, itemSize, seed) ==
    [numSketches |-> nsketches,
     sketchWidth |-> width,
     sketchHeight |-> height,
     sampleSize |-> sampleSize,
     itemSize |-> itemSize,
     count |-> 0,
     seed |-> seed,
     bucket |-> [x \in 0 .. (nsketches * width * height - 1) |-> ZeroBucket],
     sample |-> [x \in 0 .. (nsketches * width * height - 1) |->
                    [k \in 1 .. sampleSize |-> 0]]]

\* section 3.2 sizing in omnisketch_add: d from delta, w from (epsilon, d),
\* (B, b) from delta; scaled down to shapes a model checker can enumerate.
\* The arithmetic is applied to whatever was passed: a delta above 1 gives a
\* smaller d (ceil(log(2.0 / 1.5)) = 1), an epsilon above 1 a smaller w
Sizing(epsilon, delta) ==
    [d |-> IF delta = 5 THEN 1 ELSE IF delta <= 2 THEN 2 ELSE 3,
     w |-> IF epsilon = 3 THEN 1 ELSE IF epsilon = 1 THEN 2 ELSE 3,
     B |-> IF delta = 4 THEN 1 ELSE 2,
     b |-> IF delta \in {1, 5} THEN 1 ELSE IF delta <= 3 THEN 2 ELSE 3]

----------------------------------------------------------------------------
(* Bucket/sample engine *)

\* the loop of omnisketch_sample_add that recomputes the maximum after a
\* replacement: for k in [0, sampleCount), h >= maxHash moves the maximum
RECURSIVE ScanMax(_, _, _, _, _)
ScanMax(sample, n, k, maxHash, maxIndex) ==
    IF k >= n THEN [maxHash |-> maxHash, maxIndex |-> maxIndex]
    ELSE IF H_s(sample[k + 1]) >= maxHash
         THEN ScanMax(sample, n, k + 1, H_s(sample[k + 1]), k)
         ELSE ScanMax(sample, n, k + 1, maxHash, maxIndex)

\* omnisketch_sample_add: bottom-k insertion of one item into one cell
omnisketch_sample_add(sampleSize, bucket, sample, item) ==
    LET h == H_s(item) IN
    IF bucket.sampleCount < sampleSize
    THEN LET b1 == IF bucket.sampleCount = 0
                   THEN [bucket EXCEPT !.maxIndex = 0, !.maxHash = h]
                   ELSE IF h > bucket.maxHash
                   THEN [bucket EXCEPT !.maxIndex = bucket.sampleCount,
                                       !.maxHash = h]
                   ELSE bucket
         IN [bucket |-> [b1 EXCEPT !.sampleCount = bucket.sampleCount + 1],
             sample |-> [sample EXCEPT ![bucket.sampleCount + 1] = item]]
    ELSE IF h < bucket.maxHash
    THEN LET s1 == [sample EXCEPT ![bucket.maxIndex + 1] = item]
             m == ScanMax(s1, bucket.sampleCount, 0, 0, bucket.maxIndex)
         IN [bucket |-> [bucket EXCEPT !.maxHash = m.maxHash,
                                       !.maxIndex = m.maxIndex],
             sample |-> s1]
    ELSE [bucket |-> bucket, sample |-> sample]

\* omnisketch_add_hash: rows i = 0 .. sketchHeight-1 of one column
RECURSIVE omnisketch_add_hash(_, _, _, _, _)
omnisketch_add_hash(sketch, column, hash, item, i) ==
    IF i >= sketch.sketchHeight THEN sketch
    ELSE LET j == RowHash(hash, i) % sketch.sketchWidth
             x == SKETCH_BUCKET_INDEX(sketch, column, i, j)
             b1 == [sketch.bucket[x] EXCEPT !.totalCount = @ + 1]
             r == omnisketch_sample_add(sketch.sampleSize, b1,
                                        sketch.sample[x], item)
         IN omnisketch_add_hash(
                [sketch EXCEPT !.bucket[x] = r.bucket, !.sample[x] = r.sample],
                column, hash, item, i + 1)

\* the per-column loop of omnisketch_add: dropped attributes are skipped
RECURSIVE AddColumns(_, _, _, _, _, _)
AddColumns(sketch, ncolumns, dropped, hashes, id, i) ==
    IF i >= ncolumns THEN sketch
    ELSE IF i \in dropped
    THEN AddColumns(sketch, ncolumns, dropped, hashes, id, i + 1)
    ELSE AddColumns(omnisketch_add_hash(sketch, i, hashes[i], id, 0),
                    ncolumns, dropped, hashes, id, i + 1)

\* variant of omnisketch_add that counts the record before it checks the
\* number of attributes
omnisketch_add_countFirst(state, epsilon, delta, seed, ncolumns, dropped, hashes) ==
    LET sz == Sizing(epsilon, delta)
        sketch == IF state = Null
                  THEN omnisketch_allocate(ncolumns, sz.w, sz.d, sz.B, sz.b, seed)
                  ELSE state
        s1 == [sketch EXCEPT !.count = @ + 1]
        id == RecordId(s1.count, s1.seed)
    IN IF sketch.numSketches # ncolumns
       THEN [err |-> "mismatch", sketch |-> s1]
       ELSE [err |-> "",
             sketch |-> AddColumns(s1, ncolumns, dropped, hashes, id, 0)]

\* omnisketch_add: allocate on a NULL state, check the number of record
\* attributes, count the record, derive its id, insert it in every column
omnisketch_add(state, epsilon, delta, seed, ncolumns, dropped, hashes) ==
    LET sz == Sizing(epsilon, delta)
        sketch == IF state = Null
                  THEN omnisketch_allocate(ncolumns, sz.w, sz.d, sz.B, sz.b, seed)
                  ELSE state
    IN IF sketch.numSketches # ncolumns
       THEN [err |-> "mismatch", sketch |-> state]
       ELSE LET s1 == [sketch EXCEPT !.count = @ + 1]
                id == RecordId(s1.count, s1.seed)
            IN [err |-> "",
                sketch |-> AddColumns(s1, ncolumns, dropped, hashes, id, 0)]

----------------------------------------------------------------------------
(* Sorting *)

\* cmp_item_hash: (hash, item) lexicographically
cmp_item_hash(a, b) ==
    IF a.hash < b.hash THEN -1
    ELSE IF a.hash > b.hash THEN 1
    ELSE IF a.item < b.item THEN -1
    ELSE IF a.item > b.item THEN 1
    ELSE 0

\* pg_qsort(sorted, n, sizeof(item_hash_t), cmp_item_hash)
RECURSIVE InsertItem(_, _)
InsertItem(x, s) ==
    IF s = <<>> THEN <<x>>
    ELSE IF cmp_item_hash(x, Head(s)) <= 0 THEN <<x>> \o s
    ELSE <<Head(s)>> \o InsertItem(x, Tail(s))

RECURSIVE pg_qsort(_)
pg_qsort(s) == IF s = <<>> THEN <<>> ELSE InsertItem(Head(s), pg_qsort(Tail(s)))

\* omnisketch_sorted_items: (item, hash) pairs of the sample, sorted unless
\* the bucket says it is sorted already
omnisketch_sorted_items(bucket, items) ==
    LET pairs == [k \in 1 .. bucket.sampleCount |->
                     [item |-> items[k], hash |-> H_s(items[k])]]
    IN IF ~bucket.isSorted THEN pg_qsort(pairs) ELSE pairs

----------------------------------------------------------------------------
(* Finalizer *)

\* variant of FinalizeCell that reverses the stored ids of a cell, sorted or
\* not, in place of sorting them
FinalizeCell_reversing(bucket, sample) ==
    [bucket |-> [bucket EXCEPT !.isSorted = TRUE],
     sample |-> [l \in DOMAIN sample |->
                    IF l <= bucket.sampleCount
                    THEN sample[bucket.sampleCount + 1 - l]
                    ELSE sample[l]]]

\* variant of FinalizeCell that sorts the ids and does not set isSorted
FinalizeCell_noFlag(bucket, sample) ==
    IF bucket.isSorted THEN [bucket |-> bucket, sample |-> sample]
    ELSE IF bucket.sampleCount >= 2
    THEN LET items == omnisketch_sorted_items(bucket, sample)
         IN [bucket |-> [bucket EXCEPT !.maxIndex = bucket.sampleCount - 1],
             sample |-> [l \in DOMAIN sample |->
                            IF l <= bucket.sampleCount THEN items[l].item
                            ELSE sample[l]]]
    ELSE [bucket |-> bucket, sample |-> sample]

\* the body of the loops of omnisketch_finalize for one cell
FinalizeCell(bucket, sample) ==
    IF bucket.isSorted THEN [bucket |-> bucket, sample |-> sample]
    ELSE IF bucket.sampleCount >= 2
    THEN LET items == omnisketch_sorted_items(bucket, sample)
         IN [bucket |-> [bucket EXCEPT !.maxIndex = bucket.sampleCount - 1,
                                       !.isSorted = TRUE],
             sample |-> [l \in DOMAIN sample |->
                            IF l <= bucket.sampleCount THEN items[l].item
                            ELSE sample[l]]]
    ELSE [bucket |-> bucket, sample |-> sample]

\* omnisketch_finalize
omnisketch_finalize(sketch) ==
    [sketch EXCEPT
        !.bucket = [x \in DOMAIN sketch.bucket |->
                       FinalizeCell(sketch.bucket[x], sketch.sample[x]).bucket],
        !.sample = [x \in DOMAIN sketch.sample |->
                       FinalizeCell(sketch.bucket[x], sketch.sample[x]).sample]]

----------------------------------------------------------------------------
(* Combiner *)

\* variant of omnisketch_equals that does not compare itemSize
omnisketch_equals_noItemSize(a, b) ==
    /\ a.numSketches = b.numSketches
    /\ a.sketchHeight = b.sketchHeight
    /\ a.sketchWidth = b.sketchWidth
    /\ a.sampleSize = b.sampleSize

\* omnisketch_equals
omnisketch_equals(a, b) ==
    /\ a.numSketches = b.numSketches
    /\ a.sketchHeight = b.sketchHeight
    /\ a.sketchWidth = b.sketchWidth
    /\ a.sampleSize = b.sampleSize
    /\ a.itemSize = b.itemSize

\* variant of omnisketch_copy that copies the header and leaves the buckets
\* and samples as palloc0 made them
omnisketch_copy_headerOnly(sketch) ==
    [sketch EXCEPT
        !.bucket = [x \in DOMAIN sketch.bucket |-> ZeroBucket],
        !.sample = [x \in DOMAIN sketch.sample |->
                       [k \in 1 .. sketch.sampleSize |-> 0]]]

\* omnisketch_copy: memcpy of the whole varlena
omnisketch_copy(sketch) == sketch

\* the while loop of omnisketch_merge_buckets; dn, sn are the sample counts
\* of the two buckets before the merge
RECURSIVE MergeLoop(_, _, _, _, _, _, _, _, _, _)
MergeLoop(i, j, k, sample, maxHash, dst_items, src_items, dn, sn, sampleSize) ==
    IF ~(k < sampleSize /\ (i < dn \/ j < sn))
    THEN [k |-> k, sample |-> sample, maxHash |-> maxHash]
    ELSE IF i = dn
    THEN MergeLoop(i, j + 1, k + 1,
                   [sample EXCEPT ![k + 1] = src_items[j + 1].item],
                   src_items[j + 1].hash,
                   dst_items, src_items, dn, sn, sampleSize)
    ELSE IF j = sn
    THEN MergeLoop(i + 1, j, k + 1,
                   [sample EXCEPT ![k + 1] = dst_items[i + 1].item],
                   dst_items[i + 1].hash,
                   dst_items, src_items, dn, sn, sampleSize)
    ELSE IF cmp_item_hash(dst_items[i + 1], src_items[j + 1]) > 0
    THEN MergeLoop(i, j + 1, k + 1,
                   [sample EXCEPT ![k + 1] = src_items[j + 1].item],
                   src_items[j + 1].hash,
                   dst_items, src_items, dn, sn, sampleSize)
    ELSE MergeLoop(i + 1, j, k + 1,
                   [sample EXCEPT ![k + 1] = dst_items[i + 1].item],
                   dst_items[i + 1].hash,
                   dst_items, src_items, dn, sn, sampleSize)

\* variant of omnisketch_merge_buckets that keeps the ids of a full dst cell
\* and merges the samples only while dst has room
omnisketch_merge_buckets_dstFull(dst_bucket, src_bucket, dst_sample, src_sample, sampleSize) ==
    IF src_bucket.sampleCount = 0
    THEN [bucket |-> dst_bucket, sample |-> dst_sample]
    ELSE IF dst_bucket.sampleCount = sampleSize
    THEN [bucket |-> [dst_bucket EXCEPT
                         !.totalCount = @ + src_bucket.totalCount],
          sample |-> dst_sample]
    ELSE LET dst_items == omnisketch_sorted_items(dst_bucket, dst_sample)
             src_items == omnisketch_sorted_items(src_bucket, src_sample)
             m == MergeLoop(0, 0, 0, dst_sample, dst_bucket.maxHash,
                            dst_items, src_items,
                            dst_bucket.sampleCount, src_bucket.sampleCount,
                            sampleSize)
         IN [bucket |-> [totalCount |-> dst_bucket.totalCount + src_bucket.totalCount,
                         sampleCount |-> m.k,
                         maxIndex |-> m.k - 1,
                         maxHash |-> m.maxHash,
                         isSorted |-> TRUE],
             sample |-> m.sample]

\* variant of omnisketch_merge_buckets that returns early only when both
\* cells are empty: a dst cell is sorted and flagged even if src's is empty
omnisketch_merge_buckets_always(dst_bucket, src_bucket, dst_sample, src_sample, sampleSize) ==
    IF src_bucket.sampleCount = 0 /\ dst_bucket.sampleCount = 0
    THEN [bucket |-> dst_bucket, sample |-> dst_sample]
    ELSE LET dst_items == omnisketch_sorted_items(dst_bucket, dst_sample)
             src_items == omnisketch_sorted_items(src_bucket, src_sample)
             m == MergeLoop(0, 0, 0, dst_sample, dst_bucket.maxHash,
                            dst_items, src_items,
                            dst_bucket.sampleCount, src_bucket.sampleCount,
                            sampleSize)
         IN [bucket |-> [totalCount |-> dst_bucket.totalCount + src_bucket.totalCount,
                         sampleCount |-> m.k,
                         maxIndex |-> m.k - 1,
                         maxHash |-> m.maxHash,
                         isSorted |-> TRUE],
             sample |-> m.sample]

\* omnisketch_merge_buckets: the first bucket is updated
omnisketch_merge_buckets(dst_bucket, src_bucket, dst_sample, src_sample, sampleSize) ==
    IF src_bucket.sampleCount = 0
    THEN [bucket |-> dst_bucket, sample |-> dst_sample]
    ELSE LET dst_items == omnisketch_sorted_items(dst_bucket, dst_sample)
             src_items == omnisketch_sorted_items(src_bucket, src_sample)
             m == MergeLoop(0, 0, 0, dst_sample, dst_bucket.maxHash,
                            dst_items, src_items,
                            dst_bucket.sampleCount, src_bucket.sampleCount,
                            sampleSize)
         IN [bucket |-> [totalCount |-> dst_bucket.totalCount + src_bucket.totalCount,
                         sampleCount |-> m.k,
                         maxIndex |-> m.k - 1,
                         maxHash |-> m.maxHash,
                         isSorted |-> TRUE],
             sample |-> m.sample]

\* variant of CombineCount that forgets src: the merged sketch keeps dst's
\* count
CombineCount_dstOnly(dst, src) == dst.count

\* dst->count += src->count
CombineCount(dst, src) == dst.count + src.count

\* the three nested loops of omnisketch_combine and the count update
MergeSketches(dst, src) ==
    [dst EXCEPT
        !.bucket = [x \in DOMAIN dst.bucket |->
                       omnisketch_merge_buckets(dst.bucket[x], src.bucket[x],
                                                dst.sample[x], src.sample[x],
                                                dst.sampleSize).bucket],
        !.sample = [x \in DOMAIN dst.sample |->
                       omnisketch_merge_buckets(dst.bucket[x], src.bucket[x],
                                                dst.sample[x], src.sample[x],
                                                dst.sampleSize).sample],
        !.count = CombineCount(dst, src)]

\* omnisketch_combine(dst, src); inAgg is AggCheckCallContext's answer
omnisketch_combine(dst, src, inAgg) ==
    IF ~inAgg THEN [err |-> "context", sketch |-> dst]
    ELSE IF dst = Null
    THEN IF src = Null THEN [err |-> "", sketch |-> Null]
         ELSE [err |-> "", sketch |-> omnisketch_copy(src)]
    ELSE IF src = Null THEN [err |-> "", sketch |-> dst]
    ELSE IF ~omnisketch_equals(src, dst) THEN [err |-> "mismatch", sketch |-> dst]
    ELSE [err |-> "", sketch |-> MergeSketches(dst, src)]

----------------------------------------------------------------------------
(* Estimator *)

\* items == NULL in omnisketch_estimate
NoItems == [isnull |-> TRUE]

\* the while loop of intersect_items; items is overwritten in place
RECURSIVE IntersectLoop(_, _, _, _, _, _, _)
IntersectLoop(items, nitems, n, tmp, i, j, k) ==
    IF ~(i < nitems /\ j < n) THEN [nitems |-> k, items |-> items]
    ELSE IF items[i + 1] = tmp[j + 1]
    THEN IntersectLoop([items EXCEPT ![k + 1] = items[i + 1]], nitems, n, tmp,
                       i + 1, j + 1, k + 1)
    ELSE IF H_s(items[i + 1]) < H_s(tmp[j + 1])
    THEN IntersectLoop(items, nitems, n, tmp, i + 1, j, k)
    ELSE IntersectLoop(items, nitems, n, tmp, i, j + 1, k)

\* intersect_items(items, n, tmp)
intersect_items(items, n, tmp) ==
    IntersectLoop(items.items, items.nitems, n, tmp, 0, 0, 0)

\* omnisketch_column_estimate: rows i = 0 .. sketchHeight-1 of one column
RECURSIVE omnisketch_column_estimate(_, _, _, _, _, _)
omnisketch_column_estimate(sketch, column, hash, maxcnt, items, i) ==
    IF i >= sketch.sketchHeight THEN [maxcnt |-> maxcnt, items |-> items]
    ELSE LET j == RowHash(hash, i) % sketch.sketchWidth
             x == SKETCH_BUCKET_INDEX(sketch, column, i, j)
             bucket == sketch.bucket[x]
             sample == sketch.sample[x]
             m1 == IF bucket.totalCount > maxcnt THEN bucket.totalCount ELSE maxcnt
             it1 == IF items = NoItems
                    THEN [nitems |-> bucket.sampleCount,
                          items |-> [k \in 1 .. bucket.sampleCount |-> sample[k]]]
                    ELSE intersect_items(items, bucket.sampleCount, sample)
         IN omnisketch_column_estimate(sketch, column, hash, m1, it1, i + 1)

\* the per-column loop of omnisketch_estimate
RECURSIVE EstimateColumns(_, _, _, _, _, _, _)
EstimateColumns(sketch, ncolumns, dropped, hashes, maxcnt, items, i) ==
    IF i >= ncolumns THEN [maxcnt |-> maxcnt, items |-> items]
    ELSE IF i \in dropped
    THEN EstimateColumns(sketch, ncolumns, dropped, hashes, maxcnt, items, i + 1)
    ELSE LET r == omnisketch_column_estimate(sketch, i, hashes[i], maxcnt, items, 0)
         IN EstimateColumns(sketch, ncolumns, dropped, hashes, r.maxcnt, r.items,
                            i + 1)

\* variant of EstimateValue that divides by itemSize in place of sampleSize
EstimateValue_byItemSize(sketch, maxcnt, nitems) ==
    (maxcnt \div sketch.itemSize) * nitems

\* est = maxcnt / sketch->sampleSize * items->nitems: int64 / int16 is an
\* integer division, taken before the multiplication
EstimateValue(sketch, maxcnt, nitems) == (maxcnt \div sketch.sampleSize) * nitems

\* omnisketch_estimate
omnisketch_estimate(sketch, ncolumns, dropped, hashes) ==
    IF sketch.numSketches # ncolumns
    THEN [err |-> "mismatch", val |-> 0, maxcnt |-> 0, nitems |-> 0]
    ELSE LET r == EstimateColumns(sketch, ncolumns, dropped, hashes, 0, NoItems, 0)
         IN [err |-> "",
             val |-> EstimateValue(sketch, r.maxcnt, r.items.nitems),
             maxcnt |-> r.maxcnt,
             nitems |-> r.items.nitems]

\* omnisketch_count
omnisketch_count(sketch) == sketch.count

----------------------------------------------------------------------------
(* History kept beside each sketch, for stating the properties *)

\* what has been fed into a NULL state: nothing.  ids: the record ids
\* ingested; routed: per cell, the ids that hashed into it; dup: some id was
\* ingested twice; merged: omnisketch_combine has merged two sketches into
\* it; fin: omnisketch_finalize has worked on it or on a sketch merged into
\* it; refilled: a record or a sketch was added after that; nrec: the number
\* of records ingested
NoHistory ==
    [ids |-> {}, routed |-> <<>>, dup |-> FALSE, merged |-> FALSE,
     fin |-> FALSE, refilled |-> FALSE, nrec |-> 0]

\* the cells one record visits: one per row of every live column
VisitedCells(sketch, ncolumns, dropped, hashes) ==
    {SKETCH_BUCKET_INDEX(sketch, a, i, RowHash(hashes[a], i) % sketch.sketchWidth) :
        a \in (0 .. ncolumns - 1) \ dropped, i \in 0 .. sketch.sketchHeight - 1}

\* history after omnisketch_add stored record id in sketch (the new value)
HistoryAdd(h, sketch, ncolumns, dropped, hashes) ==
    LET id == RecordId(sketch.count, sketch.seed)
        cells == VisitedCells(sketch, ncolumns, dropped, hashes)
    IN [ids |-> h.ids \cup {id},
        routed |-> [x \in DOMAIN sketch.bucket |->
                       (IF x \in DOMAIN h.routed THEN h.routed[x] ELSE {})
                       \cup (IF x \in cells THEN {id} ELSE {})],
        dup |-> h.dup \/ id \in h.ids,
        merged |-> h.merged,
        fin |-> h.fin,
        refilled |-> h.refilled \/ h.fin,
        nrec |-> h.nrec + 1]

\* history after omnisketch_combine merged src into dst
HistoryMerge(hd, hs) ==
    [ids |-> hd.ids \cup hs.ids,
     routed |-> [x \in DOMAIN hd.routed |-> hd.routed[x] \cup hs.routed[x]],
     dup |-> hd.dup \/ hs.dup \/ (hd.ids \cap hs.ids) # {},
     merged |-> TRUE,
     fin |-> hd.fin \/ hs.fin,
     refilled |-> hd.refilled \/ hs.refilled \/ hd.fin \/ hs.fin,
     nrec |-> hd.nrec + hs.nrec]

\* the outcome of the last call: which function, on which slots, its error,
\* and for omnisketch_estimate the query and the value returned
Outcome(op, dst, src, err, val, q) ==
    [op |-> op, dst |-> dst, src |-> src, err |-> err, val |-> val, q |-> q]

NoQuery == [ncolumns |-> 0, dropped |-> {}, hashes |-> <<>>]

NoFold == <<>>

----------------------------------------------------------------------------
(* The calls *)

Init ==
    /\ sk = [i \in Slots |-> Null]
    /\ gh = [i \in Slots |-> NoHistory]
    /\ nadd = 0
    /\ res = Outcome("none", 0, 0, "", 0, NoQuery)
    /\ fold = NoFold
    /\ trans = 0

\* omnisketch_add(sk[i], epsilon, delta, record) as the aggregate's
\* transition function; seed is what pg_prng_uint32 returns on allocation;
\* a run ingests at most max records.  The outcome keeps the record's shape
\* and, when the call had to size a new sketch, the parameters it used
Add(i, epsilon, delta, seed, ncolumns, dropped, hashes, max) ==
    /\ nadd < max
    /\ IF sk[i] = Null THEN TRUE ELSE seed = sk[i].seed
    /\ LET r == omnisketch_add(sk[i], epsilon, delta, seed, ncolumns, dropped, hashes)
       IN /\ res' = Outcome("add", i, 0, r.err, 0,
                            [ncolumns |-> ncolumns, dropped |-> dropped,
                             hashes |-> <<>>,
                             par |-> IF sk[i] = Null THEN <<epsilon, delta>>
                                     ELSE <<>>])
          /\ sk' = [sk EXCEPT ![i] = r.sketch]
          /\ IF r.err = ""
             THEN /\ gh' = [gh EXCEPT ![i] =
                               HistoryAdd(gh[i], r.sketch, ncolumns, dropped, hashes)]
                  /\ nadd' = nadd + 1
             ELSE UNCHANGED <<gh, nadd>>
    /\ fold' = NoFold
    /\ UNCHANGED trans

\* omnisketch_combine(sk[i], sk[j]) as the aggregate's combine function: the
\* result is the new state of slot i, and the executor releases the partial
\* state sk[j] once it has been merged or copied; partial states flow
\* towards the lower slots
Combine(i, j, inAgg) ==
    /\ i < j
    /\ LET r == omnisketch_combine(sk[i], sk[j], inAgg)
       IN /\ res' = Outcome("combine", i, j, r.err, 0, NoQuery)
          /\ IF r.err = ""
             THEN /\ sk' = [sk EXCEPT ![i] = r.sketch, ![j] = Null]
                  /\ gh' = [gh EXCEPT ![i] =
                               IF sk[i] = Null THEN gh[j]
                               ELSE IF sk[j] = Null THEN gh[i]
                               ELSE HistoryMerge(gh[i], gh[j]),
                            ![j] = NoHistory]
             ELSE /\ sk' = [sk EXCEPT ![i] = r.sketch]
                  /\ UNCHANGED gh
    /\ UNCHANGED <<nadd, trans>>
    /\ fold' = NoFold

\* omnisketch_finalize(sk[i]) on a state that is not NULL
Finalize(i) ==
    /\ sk[i] # Null
    /\ sk' = [sk EXCEPT ![i] = omnisketch_finalize(sk[i])]
    /\ gh' = [gh EXCEPT ![i].fin = TRUE]
    /\ res' = Outcome("finalize", i, 0, "", 0, NoQuery)
    /\ UNCHANGED <<nadd, trans>>
    /\ fold' = NoFold

\* omnisketch_estimate(sk[i], record): the function is STRICT, and a record
\* with every attribute dropped would dereference items == NULL
Estimate(i, ncolumns, dropped, hashes) ==
    /\ sk[i] # Null
    /\ dropped # 0 .. ncolumns - 1
    /\ LET r == omnisketch_estimate(sk[i], ncolumns, dropped, hashes)
       IN res' = Outcome("estimate", i, 0, r.err, r.val,
                         [ncolumns |-> ncolumns, dropped |-> dropped,
                          hashes |-> hashes])
    /\ UNCHANGED <<sk, gh, nadd, trans>>
    /\ fold' = NoFold

\* three shards folded by omnisketch_combine in three orders, each fold on
\* copies of the shards, each result passed to omnisketch_finalize
Fold3 ==
    /\ \A i \in Slots : sk[i] # Null
    /\ omnisketch_equals(sk[1], sk[2]) /\ omnisketch_equals(sk[2], sk[3])
    /\ LET A == sk[1]
           B == sk[2]
           C == sk[3]
           cmb(x, y) == omnisketch_combine(x, y, TRUE).sketch
       IN fold' = [ab_c |-> omnisketch_finalize(cmb(cmb(A, B), C)),
                   a_bc |-> omnisketch_finalize(cmb(A, cmb(B, C))),
                   ca_b |-> omnisketch_finalize(cmb(cmb(C, A), B))]
    /\ res' = Outcome("fold3", 0, 0, "", 0, NoQuery)
    /\ UNCHANGED <<sk, gh, nadd, trans>>

----------------------------------------------------------------------------
(* Spec: shards of one shape built, combined and finalized *)

\* the seeds pg_prng_uint32 may hand to a sketch allocated in slot i
SlotSeeds(i) == IF i = 1 THEN {1} ELSE {2, 3}

\* records (v, v) of the two-column row type (a, b)
Records == {[a \in 0 .. 1 |-> v] : v \in ColHashes}

\* a combined state in slot 1, partial states in slot 2
Next ==
    \/ \E i \in {1, 2}, hashes \in Records : \E seed \in SlotSeeds(i) :
          Add(i, 1, 1, seed, 2, {}, hashes, MaxRecs)
    \/ Combine(1, 2, TRUE)
    \/ \E i \in {1, 2} : Finalize(i)

Spec == Init /\ [][Next]_vars

----------------------------------------------------------------------------
(* SpecFold: three shards, folded in three orders *)

NextFold ==
    \/ \E i \in Slots, hashes \in Records :
          Add(i, 1, 1, i, 2, {}, hashes, MaxRecsFold)
    \/ \E i \in Slots : Finalize(i)
    \/ Fold3

SpecFold == Init /\ [][NextFold]_vars

----------------------------------------------------------------------------
(* SpecEst: the combined state queried by omnisketch_estimate *)

\* query records (a, b) with independent column values
Queries == [0 .. 1 -> ColHashes]

NextEst ==
    \/ \E i \in {1, 2}, hashes \in Records : \E seed \in SlotSeeds(i) :
          Add(i, 1, 1, seed, 2, {}, hashes, MaxRecsEst)
    \/ Combine(1, 2, TRUE)
    \/ \E i \in {1, 2} : Finalize(i)
    \/ \E hashes \in Queries : Estimate(1, 2, {}, hashes)

SpecEst == Init /\ [][NextEst]_vars

----------------------------------------------------------------------------
(* SpecRec: records of several row types, sketches of several shapes *)

\* row types: the number of attributes and the attributes dropped from it
RowTypes ==
    {[ncolumns |-> 2, dropped |-> {}], [ncolumns |-> 3, dropped |-> {}],
     [ncolumns |-> 2, dropped |-> {1}]}

\* the record of row type t whose live attributes all hash to 0
ZeroRecord(t) == [a \in 0 .. t.ncolumns - 1 |-> 0]

\* slot 1 is sized by (epsilon, delta) = (1, 1), slot 2 by any parameters
NextRec ==
    \/ \E t \in RowTypes :
          Add(1, 1, 1, 1, t.ncolumns, t.dropped, ZeroRecord(t), MaxRecsRec)
    \/ \E epsilon \in EpsLevels, delta \in DeltaLevels, t \in RowTypes :
          Add(2, epsilon, delta, 2, t.ncolumns, t.dropped, ZeroRecord(t),
              MaxRecsRec)
    \/ \E inAgg \in BOOLEAN : Combine(1, 2, inAgg)
    \/ \E t \in RowTypes : Estimate(1, t.ncolumns, t.dropped, ZeroRecord(t))

SpecRec == Init /\ [][NextRec]_vars

----------------------------------------------------------------------------
(* Vocabulary of the properties *)

\* the slots holding a sketch
Live == {i \in Slots : sk[i] # Null}

\* the ids a cell stores
Stored(s, x) == {s.sample[x][k] : k \in 1 .. s.bucket[x].sampleCount}

\* the cell's ids are strictly increasing under (H_s(id), id)
StrictlySorted(s, x) ==
    \A k \in 1 .. s.bucket[x].sampleCount - 1 :
        \/ H_s(s.sample[x][k]) < H_s(s.sample[x][k + 1])
        \/ /\ H_s(s.sample[x][k]) = H_s(s.sample[x][k + 1])
           /\ s.sample[x][k] < s.sample[x][k + 1]

\* the sum of total_count over the cells j < n of row i of column a
RECURSIVE RowTotal(_, _, _, _)
RowTotal(s, a, i, n) ==
    IF n = 0 THEN 0
    ELSE s.bucket[SKETCH_BUCKET_INDEX(s, a, i, n - 1)].totalCount
         + RowTotal(s, a, i, n - 1)

MinOf(a, b) == IF a < b THEN a ELSE b

\* the same five shape fields, compared one by one
SameShape(a, b) ==
    <<a.numSketches, a.sketchHeight, a.sketchWidth, a.sampleSize, a.itemSize>>
    = <<b.numSketches, b.sketchHeight, b.sketchWidth, b.sampleSize, b.itemSize>>

----------------------------------------------------------------------------
(* C1 *)

\* C1 (P1, count conservation): in every sketch, for every column a and
\* every row i, the total_count of the cells of the row add up to count.
C1_CountConservation ==
    \A s \in Live : \A a \in 0 .. sk[s].numSketches - 1 :
        \A i \in 0 .. sk[s].sketchHeight - 1 :
            RowTotal(sk[s], a, i, sk[s].sketchWidth) = sk[s].count

----------------------------------------------------------------------------
(* C2 *)

\* the cell stores exactly the min(total_count, B) ids of smallest H_s among
\* the ids routed to it
BottomK(s, h, x) ==
    LET S == Stored(s, x)
        R == h.routed[x]
        n == MinOf(s.bucket[x].totalCount, s.sampleSize)
    IN /\ s.bucket[x].sampleCount = n
       /\ Cardinality(S) = n
       /\ S \subseteq R
       /\ \A in \in S, out \in R \ S : H_s(in) <= H_s(out)

\* C2 (P2, bottom-k correctness): in a sketch built by add and combine over
\* pairwise-distinct record ids every non-empty cell stores exactly the
\* min(total_count, B) ids of smallest H_s among the ids routed to it, and
\* once finalize has run on that sketch every cell is in increasing
\* (H_s, id) order.
C2_BottomK ==
    \A s \in Live : (~gh[s].dup /\ ~gh[s].refilled) =>
        \A x \in DOMAIN sk[s].bucket : sk[s].bucket[x].totalCount > 0 =>
            /\ BottomK(sk[s], gh[s], x)
            /\ gh[s].fin => StrictlySorted(sk[s], x)

----------------------------------------------------------------------------
(* C3 *)

\* a step in which omnisketch_combine merged two sketches
MergeStep ==
    /\ res'.op = "combine" /\ res'.err = ""
    /\ sk[res'.dst] # Null /\ sk[res'.src] # Null
    /\ sk' # sk

\* C3 (P4, combine sum): a merge of two structurally equal sketches yields
\* count = A.count + B.count and, in every cell, total_count = the sum of
\* the two cells' total_count; so omnisketch_count of any fold of combines
\* is the number of records added to the shards.
C3_CombineSum ==
    /\ [][MergeStep =>
            LET d == res'.dst
                c == res'.src
            IN /\ sk'[d].count = sk[d].count + sk[c].count
               /\ \A x \in DOMAIN sk[d].bucket :
                     sk'[d].bucket[x].totalCount =
                        sk[d].bucket[x].totalCount + sk[c].bucket[x].totalCount]_vars
    /\ [](\A s \in Live : omnisketch_count(sk[s]) = gh[s].nrec)

\* a merge of two sketches holding records has happened, the result holding
\* a cell fed by both
C3_Witness ==
    /\ res.op = "combine" /\ res.err = ""
    /\ sk[res.dst] # Null
    /\ gh[res.dst].merged
    /\ sk[res.dst].count >= 3
    /\ \E x \in DOMAIN sk[res.dst].bucket : sk[res.dst].bucket[x].totalCount >= 3

----------------------------------------------------------------------------
(* C5 *)

\* C5 (P5, finalize idempotence): the sketch omnisketch_finalize has just
\* returned is a fixed point of omnisketch_finalize, in every header field,
\* bucket field and id slot.
C5_FinalizeIdempotent ==
    (res.op = "finalize") => omnisketch_finalize(sk[res.dst]) = sk[res.dst]

\* finalize has reordered a cell: in a sketch of three added records the
\* third record's id, which add stores behind the first's, stands ahead of it
C5_Witness ==
    /\ res.op = "finalize"
    /\ ~gh[res.dst].merged /\ gh[res.dst].nrec = 3
    /\ \E x \in DOMAIN sk[res.dst].bucket :
          /\ sk[res.dst].bucket[x].sampleCount = 2
          /\ sk[res.dst].bucket[x].isSorted
          /\ sk[res.dst].sample[x] = <<RecordId(3, sk[res.dst].seed),
                                       RecordId(1, sk[res.dst].seed)>>

----------------------------------------------------------------------------
(* C4 *)

Shape(s) ==
    <<s.numSketches, s.sketchWidth, s.sketchHeight, s.sampleSize, s.itemSize,
      s.count>>

\* a cell's fields without is_sorted, and its stored ids in order
CellContent(s, x) ==
    <<s.bucket[x].totalCount, s.bucket[x].sampleCount, s.bucket[x].maxIndex,
      s.bucket[x].maxHash, SubSeq(s.sample[x], 1, s.bucket[x].sampleCount)>>

\* two sketches agree on everything but the seed and the is_sorted flags
SameContent(s, t) ==
    /\ Shape(s) = Shape(t)
    /\ \A x \in DOMAIN s.bucket : CellContent(s, x) = CellContent(t, x)

\* the shards were built by add alone, or by add and then finalize
PlainShards == \A i \in Slots : ~gh[i].refilled

----------------------------------------------------------------------------
(* C6, C7 *)

\* the sketch the last call worked on
Target == sk[res.dst]

\* the cells the query of the last omnisketch_estimate visits
QueryCells == VisitedCells(Target, res.q.ncolumns, res.q.dropped, res.q.hashes)

\* the largest total_count over the visited cells
MaxVisited ==
    LET totals == {Target.bucket[x].totalCount : x \in QueryCells}
    IN CHOOSE m \in totals : \A t \in totals : t <= m

\* the ids stored in every visited cell
Candidates ==
    {id \in UNION {Stored(Target, x) : x \in QueryCells} :
        \A x \in QueryCells : id \in Stored(Target, x)}

\* omnisketch_estimate has returned a value for a query over cells that are
\* all in (H_s, id) order
Estimated ==
    /\ res.op = "estimate" /\ res.err = ""
    /\ \A x \in QueryCells : StrictlySorted(Target, x)

\* C6: estimate returns floor(max_count * |S| / B), max_count the largest
\* total_count over the visited cells, S the ids left after intersecting the
\* visited cells' samples, B the sample size: the product is taken before
\* the division, so the result is non-zero whenever max_count * |S| >= B.
C6_EstimateFormula ==
    Estimated =>
        /\ res.val = (MaxVisited * Cardinality(Candidates)) \div Target.sampleSize
        /\ (MaxVisited * Cardinality(Candidates) >= Target.sampleSize) => res.val > 0

\* C7 (P6): the value estimate returns for a query with the sketch's column
\* count never exceeds the largest total_count among the visited cells, and
\* so never exceeds the sketch's count.
C7_EstimateBound ==
    (res.op = "estimate" /\ res.err = "") =>
        /\ res.val <= MaxVisited
        /\ res.val <= Target.count

\* an estimate has reached the bound: a positive value equal to the largest
\* visited total_count
C7_Witness ==
    /\ res.op = "estimate" /\ res.err = ""
    /\ res.val > 0
    /\ res.val = MaxVisited

----------------------------------------------------------------------------
(* C9, C10 *)

\* C9: add and estimate on an existing sketch with a record whose number of
\* columns differs from the sketch's fail with the mismatch error and leave
\* the sketch as it was: count not incremented, no cell touched.
C9_RecordMismatch ==
    [][(/\ res'.op \in {"add", "estimate"}
        /\ sk[res'.dst] # Null
        /\ res'.q.ncolumns # sk[res'.dst].numSketches)
       => (res'.err = "mismatch" /\ sk' = sk)]_vars

\* an add has been refused on a sketch holding records, which it left as
\* it was
C9_Witness ==
    /\ res.op = "add" /\ res.err = "mismatch"
    /\ sk[res.dst] # Null /\ sk[res.dst].count > 0
    /\ res.q.ncolumns # sk[res.dst].numSketches

\* C10: combine of two sketches, neither NULL, that differ in any of
\* numSketches, sketchHeight, sketchWidth, sampleSize or itemSize fails with
\* the structural error before any cell is merged; both stay as they were.
C10_CombineMismatch ==
    [][(/\ res'.op = "combine" /\ res'.err # "context"
        /\ sk[res'.dst] # Null /\ sk[res'.src] # Null
        /\ ~SameShape(sk[res'.dst], sk[res'.src]))
       => (res'.err = "mismatch" /\ sk' = sk)]_vars

\* a combine has been refused for two sketches holding records
C10_Witness ==
    /\ res.op = "combine" /\ res.err = "mismatch"
    /\ sk[res.dst] # Null /\ sk[res.src] # Null
    /\ sk[res.dst].count > 0 /\ sk[res.src].count > 0
    /\ ~SameShape(sk[res.dst], sk[res.src])

----------------------------------------------------------------------------
(* C11 *)

\* C11: combine with a NULL argument returns the other argument's contents
\* unchanged: combine(NULL, b) is a sketch equal to b, combine(a, NULL) is a,
\* and combine(NULL, NULL) is NULL.
C11_CombineNull ==
    [][(res'.op = "combine" /\ res'.err = "") =>
          /\ (sk[res'.dst] = Null) => (sk'[res'.dst] = sk[res'.src])
          /\ (sk[res'.src] = Null) => (sk'[res'.dst] = sk[res'.dst])]_vars

\* the last combine had a NULL argument: slot 1 holds a sketch, with records
\* in it, that was allocated in slot 2 and that no merge has touched
C11_Witness ==
    /\ res.op = "combine" /\ res.err = "" /\ res.dst = 1
    /\ sk[1] # Null /\ sk[1].seed \in SlotSeeds(2)
    /\ ~gh[1].merged
    /\ sk[1].count >= 2
    /\ \E x \in DOMAIN sk[1].bucket : sk[1].bucket[x].sampleCount >= 2

----------------------------------------------------------------------------
(* C12 *)

\* C12: the add that creates a sketch (NULL state) with epsilon or delta
\* outside (0, 1] fails with a parameter error, and no sketch is allocated
\* or returned.
C12_ParameterError ==
    [][(/\ res'.op = "add"
        /\ sk[res'.dst] = Null
        /\ ~(res'.q.par[1] \in ValidEps /\ res'.q.par[2] \in ValidDelta))
       => (res'.err = "parameter" /\ sk'[res'.dst] = Null)]_vars

----------------------------------------------------------------------------
(* C13 *)

\* C13: in every state reached by add, combine and finalize, add after
\* combine and add after finalize included, every cell whose is_sorted flag
\* is set holds ids strictly increasing under (H_s(id), id) and has
\* max_index = sample_count - 1.
C13_SortedFlag ==
    \A s \in Live : \A x \in DOMAIN sk[s].bucket :
        sk[s].bucket[x].isSorted =>
            /\ StrictlySorted(sk[s], x)
            /\ sk[s].bucket[x].maxIndex = sk[s].bucket[x].sampleCount - 1

----------------------------------------------------------------------------
(* C14 *)

\* C14: after every add, combine and finalize, every cell with
\* sample_count > 0 has max_index < sample_count,
\* max_hash = H_s(sample[max_index]) and H_s(sample[k]) <= max_hash for
\* every k < sample_count.
C14_MaxHash ==
    \A s \in Live : \A x \in DOMAIN sk[s].bucket :
        LET b == sk[s].bucket[x]
        IN b.sampleCount > 0 =>
              /\ b.maxIndex < b.sampleCount
              /\ b.maxHash = H_s(sk[s].sample[x][b.maxIndex + 1])
              /\ \A k \in 1 .. b.sampleCount : H_s(sk[s].sample[x][k]) <= b.maxHash

----------------------------------------------------------------------------
(* C15 *)

\* what AssertCheckBucketBasic and the first assertion of AssertCheckBucket
\* demand of a bucket, against the count the sketch has at that point
BasicBucket(count, sampleSize, bucket) ==
    /\ bucket.sampleCount <= sampleSize
    /\ bucket.sampleCount <= bucket.totalCount
    /\ bucket.totalCount <= count
    /\ (bucket.totalCount > 0) => (bucket.sampleCount > 0)

\* C15: the basic bucket invariant (sample_count <= B, sample_count <=
\* total_count, total_count <= count, total_count > 0 implies
\* sample_count > 0) holds wherever the code asserts it: after each
\* insertion and at the start and end of every operation (every cell of
\* every sketch between calls), and after each per-cell merge inside
\* combine, where the merged cell is checked against the count dst has
\* before src's count is added to it.
C15_BasicInvariant ==
    /\ [](\A s \in Live : \A x \in DOMAIN sk[s].bucket :
             BasicBucket(sk[s].count, sk[s].sampleSize, sk[s].bucket[x]))
    /\ [][MergeStep =>
            \A x \in DOMAIN sk[res'.dst].bucket :
                BasicBucket(sk[res'.dst].count, sk[res'.dst].sampleSize,
                            sk'[res'.dst].bucket[x])]_vars

----------------------------------------------------------------------------
(* C16 *)

Truthful(s, x) == s.bucket[x].isSorted => StrictlySorted(s, x)

----------------------------------------------------------------------------
(* C17 *)

\* id a comes before id b in the (H_s(id), id) order
Before(a, b) == H_s(a) < H_s(b) \/ (H_s(a) = H_s(b) /\ a < b)

\* S is the set of the first k elements of U in the (H_s(id), id) order
FirstOf(S, U, k) ==
    /\ S \subseteq U
    /\ Cardinality(S) = k
    /\ \A in \in S, out \in U \ S : Before(in, out)

\* C17: for two cells with disjoint id sets of sizes n_a and n_b, the merged
\* cell has sample_count = min(B, n_a + n_b) and holds exactly the first
\* min(B, n_a + n_b) elements of the union of the two samples in
\* (H_s(id), id) order, whether or not either input cell was sorted.
C17_MergeBottomK ==
    [][MergeStep =>
          \A x \in DOMAIN sk[res'.dst].bucket :
              LET A == Stored(sk[res'.dst], x)
                  B == Stored(sk[res'.src], x)
                  n == MinOf(sk[res'.dst].sampleSize,
                             sk[res'.dst].bucket[x].sampleCount
                             + sk[res'.src].bucket[x].sampleCount)
              IN (A \cap B = {}) =>
                    /\ sk'[res'.dst].bucket[x].sampleCount = n
                    /\ FirstOf(Stored(sk'[res'.dst], x), A \cup B, n)]_vars

----------------------------------------------------------------------------
(* C18 *)

\* no id is stored twice in the cell
NoDuplicate(s, x) ==
    \A k, l \in 1 .. s.bucket[x].sampleCount :
        (k # l) => (s.sample[x][k] # s.sample[x][l])

\* C18: when the same id occurs in the corresponding cells of the two
\* sketches being combined, the merged cell holds that id at most once: no
\* cell holds a duplicate id after combine.
C18_MergeNoDuplicate ==
    [][MergeStep =>
          \A x \in DOMAIN sk'[res'.dst].bucket :
              NoDuplicate(sk'[res'.dst], x)]_vars

----------------------------------------------------------------------------
(* C19 *)

\* C19: after finalize every non-empty cell (sample_count >= 1, the cells
\* holding a single id included) has is_sorted set.
C19_FinalizeFlagsAll ==
    (res.op = "finalize") =>
        \A x \in DOMAIN Target.bucket :
            Target.bucket[x].sampleCount >= 1 => Target.bucket[x].isSorted

\* C19 as the code has it: after finalize every cell with sample_count >= 2
\* has is_sorted set; a cell holding fewer ids is left as it was, so a
\* single id stored by add stays unflagged.
C19_FinalizeFlagsPairs ==
    [][(res'.op = "finalize") =>
          \A x \in DOMAIN sk[res'.dst].bucket :
              IF sk[res'.dst].bucket[x].sampleCount >= 2
              THEN sk'[res'.dst].bucket[x].isSorted
              ELSE /\ sk'[res'.dst].bucket[x] = sk[res'.dst].bucket[x]
                   /\ sk'[res'.dst].sample[x] = sk[res'.dst].sample[x]]_vars

\* finalize has run on a sketch that holds a single unflagged id in one
\* cell and two ids, now flagged, in another
C19_Witness ==
    /\ res.op = "finalize" /\ ~gh[res.dst].merged
    /\ \E x \in DOMAIN Target.bucket :
          Target.bucket[x].sampleCount = 1 /\ ~Target.bucket[x].isSorted
    /\ \E y \in DOMAIN Target.bucket :
          Target.bucket[y].sampleCount = 2 /\ Target.bucket[y].isSorted

----------------------------------------------------------------------------
(* C20 *)

\* C20: right after finalize, whatever adds, combines and earlier finalizes
\* came before it, the ids stored in every cell are strictly increasing
\* under (H_s(id), id): the estimator's sorted-sample precondition holds.
C20_FinalizeSorts ==
    (res.op = "finalize") =>
        \A x \in DOMAIN Target.bucket : StrictlySorted(Target, x)

----------------------------------------------------------------------------
(* SpecTie: the estimator's walk over sorted samples whose hashes collide *)

\* record ids of two sketches, seeds 1 and 7; the first and the last have
\* the same H_s
TieIds == {RecordId(1, 1), RecordId(2, 1), RecordId(4, 7)}

\* the samples a sorted cell may hold: ids strictly increasing by (H_s, id)
TieSamples ==
    {s \in UNION {[1 .. n -> TieIds] : n \in 0 .. Cardinality(TieIds)} :
        \A k \in 1 .. Len(s) - 1 : Before(s[k], s[k + 1])}

\* the cells one query visits, in the order omnisketch_estimate visits them
TieVisits == (TieSamples \X TieSamples) \cup (TieSamples \X TieSamples \X TieSamples)

\* the candidate list over the visited cells c, c + 1, ..: the first cell's
\* sample is copied, every later one is intersected into it
RECURSIVE IntersectCells(_, _, _)
IntersectCells(items, cells, c) ==
    IF c > Len(cells) THEN items
    ELSE IntersectCells(
             IF items = NoItems
             THEN [nitems |-> Len(cells[c]), items |-> cells[c]]
             ELSE intersect_items(items, Len(cells[c]), cells[c]),
             cells, c + 1)

\* the estimator walks the cells of one query
Intersect(cells) ==
    /\ LET out == IntersectCells(NoItems, cells, 1)
       IN res' = Outcome("intersect", 0, 0, "", out.nitems,
                         [cells |-> cells,
                          out |-> SubSeq(out.items, 1, out.nitems)])
    /\ UNCHANGED <<sk, gh, nadd, fold, trans>>

NextTie == \E cells \in TieVisits : Intersect(cells)

SpecTie == Init /\ [][NextTie]_vars

----------------------------------------------------------------------------
(* C21 *)

\* the ids of a list
Range(s) == {s[k] : k \in 1 .. Len(s)}

----------------------------------------------------------------------------
(* SpecOrd: the same records inserted into two fresh sketches in two orders *)

\* the record ids the caller inserts; two of them have the same H_s, one has
\* a smaller H_s and one a larger
OrdIds == {RecordId(3, 1), RecordId(1, 1), RecordId(4, 7), RecordId(2, 1)}

\* the record carrying an id: one column, its hash fixed by the id
OrdHashes(id) == [a \in 0 .. 0 |-> id % 2]

\* the fixed shape of both sketches: one column, w = d = B = b = 2
OrdFresh == omnisketch_allocate(1, 2, 2, 2, 2, 1)

\* the insertion of omnisketch_add for a record whose id the caller supplies:
\* allocate on a NULL state, count the record, insert it in every column.
\* Each record is inserted once, and only before the sketch is finalized
Ingest(i, id) ==
    /\ id \notin gh[i].ids
    /\ ~gh[i].fin
    /\ LET sketch == IF sk[i] = Null THEN OrdFresh ELSE sk[i]
           s1 == [sketch EXCEPT !.count = @ + 1]
       IN sk' = [sk EXCEPT ![i] = AddColumns(s1, 1, {}, OrdHashes(id), id, 0)]
    /\ gh' = [gh EXCEPT ![i] = [gh[i] EXCEPT !.ids = gh[i].ids \cup {id},
                                             !.nrec = gh[i].nrec + 1]]
    /\ res' = Outcome("ingest", i, 0, "", id, NoQuery)
    /\ UNCHANGED <<nadd, trans>>
    /\ fold' = NoFold

NextOrd ==
    \/ \E i \in {1, 2}, id \in OrdIds : Ingest(i, id)
    \/ \E i \in {1, 2} : Finalize(i)

SpecOrd == Init /\ [][NextOrd]_vars

----------------------------------------------------------------------------
(* C22 *)

\* what the claim calls the payload of a cell
Payload(s, x) ==
    <<s.bucket[x].totalCount, s.bucket[x].sampleCount, s.bucket[x].maxHash,
      SubSeq(s.sample[x], 1, s.bucket[x].sampleCount)>>

\* both sketches were finalized after having received the same records
SameRecords ==
    /\ gh[1].fin /\ gh[2].fin
    /\ gh[1].ids = gh[2].ids

----------------------------------------------------------------------------
(* SpecSrc: the aggregate omnisketch(omnisketch); its inputs stay in memory *)

\* variant of CopyAddress that hands the argument back instead of a copy
CopyAddress_alias(src) == src

\* where omnisketch_copy puts the copy of the sketch at address src: palloc
\* returns memory of the aggregate context, which holds none of the inputs
CopyAddress(src) == 3

\* omnisketch_combine(state, sk[j]) as the transition function of the
\* aggregate: the sketch at address j is the input value, the transition
\* state is NULL or the sketch at address trans.  With a NULL state the
\* result is what omnisketch_copy allocated, otherwise the state is merged
\* in place and returned
CombineState(j) ==
    /\ sk[j] # Null
    /\ (IF trans = 0 THEN 0 ELSE sk[trans].count) + sk[j].count <= MaxRecsSrc
    /\ LET dst == IF trans = 0 THEN Null ELSE sk[trans]
           r == omnisketch_combine(dst, sk[j], TRUE)
           addr == IF trans = 0 THEN CopyAddress(j) ELSE trans
       IN /\ res' = Outcome("combine", addr, j, r.err, 0, NoQuery)
          /\ sk' = [sk EXCEPT ![addr] = r.sketch]
          /\ gh' = [gh EXCEPT ![addr] = IF trans = 0 THEN gh[j]
                                        ELSE HistoryMerge(gh[trans], gh[j])]
          /\ trans' = addr
    /\ UNCHANGED nadd
    /\ fold' = NoFold

\* omnisketch_add on the state omnisketch_combine returned
AddState(hashes) ==
    /\ trans # 0
    /\ Add(trans, 1, 1, sk[trans].seed, 2, {}, hashes, MaxRecsSrc)

\* omnisketch_finalize on the state omnisketch_combine returned
FinalizeState ==
    /\ trans # 0
    /\ Finalize(trans)

\* the inputs are built at addresses 1 and 2; the state is combined from
\* them and then also passed to omnisketch_add and omnisketch_finalize
NextSrc ==
    \/ \E i \in {1, 2}, hashes \in Records : \E seed \in SlotSeeds(i) :
          Add(i, 1, 1, seed, 2, {}, hashes, MaxRecsSrc)
    \/ \E j \in {1, 2} : CombineState(j)
    \/ \E hashes \in Records : AddState(hashes)
    \/ FinalizeState

SpecSrc == Init /\ [][NextSrc]_vars

----------------------------------------------------------------------------
(* C23 *)

\* the step is a call of omnisketch_combine, or a call of omnisketch_add or
\* omnisketch_finalize on what omnisketch_combine returned
OnState == res'.op = "combine" \/ (trans' # 0 /\ res'.dst = trans')

\* C23: omnisketch_combine leaves its second argument as it was, header,
\* buckets and id slots; with a NULL first argument it returns a separate
\* copy of the second, so that add, combine and finalize on the result
\* leave the second argument as it was, too.
C23_SrcUnchanged ==
    [][/\ OnState => (sk'[1] = sk[1] /\ sk'[2] = sk[2])
       /\ (res'.op = "combine" /\ trans = 0)
              => (trans' # res'.src /\ sk'[trans'] = sk[res'.src])]_vars

\* the copy of the sketch at address 1 was added to and finalized, and the
\* sketch at address 1 still has an unflagged cell that the result has flagged
C23_Witness ==
    /\ trans = 3 /\ sk[1] # Null
    /\ res.op = "finalize" /\ res.dst = 3
    /\ gh[1].ids \subseteq gh[3].ids
    /\ gh[3].nrec > gh[1].nrec
    /\ ~gh[1].fin /\ ~gh[1].merged
    /\ \E x \in DOMAIN sk[1].bucket :
          /\ sk[1].bucket[x].sampleCount >= 2
          /\ ~sk[1].bucket[x].isSorted
          /\ sk[3].bucket[x].isSorted

----------------------------------------------------------------------------
(* C24 *)

\* every cell of the sketch holds its ids in strictly increasing order
AllSorted(s) == \A x \in DOMAIN s.bucket : StrictlySorted(s, x)

\* C24: when every cell of both arguments of combine is in sorted form, as
\* after finalize, every cell of the result is in strictly increasing
\* (H_s, id) order and, unless it is empty, has max_index = sample_count - 1,
\* so that the result can be estimated on without another finalize.
C24_CombineKeepsSorted ==
    [][(MergeStep /\ AllSorted(sk[res'.dst]) /\ AllSorted(sk[res'.src])) =>
          \A x \in DOMAIN sk'[res'.dst].bucket :
              /\ StrictlySorted(sk'[res'.dst], x)
              /\ (sk'[res'.dst].bucket[x].sampleCount > 0) =>
                    (sk'[res'.dst].bucket[x].maxIndex
                         = sk'[res'.dst].bucket[x].sampleCount - 1)]_vars

====
